---------------------------- MODULE Spec2Model ----------------------------
(***************************************************************************)
(* The ingredient-recognition pipeline of FitMeal-AI: label normalisation  *)
(* (app/vision/ingredient_mapper.py), catalog matching, the detector       *)
(* adapters, the hybrid YOLOv8 + Clarifai fusion (app/vision/              *)
(* hybrid_detector.py), the scan upload handler (app/api/scan.py) and the  *)
(* shared language-model manager (app/ai/llm_manager.py).                  *)
(*                                                                         *)
(* Text is modelled as a sequence of one-character strings, so that        *)
(* lower(), strip(), replace(), equality, LIKE 'x%' and LIKE '%x%' are     *)
(* computed character by character as Python and SQL compute them.         *)
(* Confidences are integers in hundredths (0.4 is 40).                     *)
(***************************************************************************)
EXTENDS Integers, Sequences, FiniteSets, TLC

VARIABLES
    pc,             \* position of the running operation
    raw_name,       \* normalize_detection_name: the argument `name`
    normalized,     \* normalize_detection_name(raw_name)
    renormalized,   \* normalize_detection_name(normalized)
    yolo_matched,   \* matched ingredients of the primary source (yolo_results)
    yolo_unmatched, \* process_yolo_detections: the 'unmatched' list it returns
    clarifai_matched, \* matched ingredients of the secondary source (clarifai_results)
    detections,     \* the merged list, results['detections']
    catalog,        \* the rows of the ingredients table
    detected_name,  \* map_detection_to_ingredient: the argument
    ingredient,     \* map_detection_to_ingredient: the row returned, or None
    clarifai_ingredient, \* map_clarifai_to_ingredients: the row the label resolves to
    catalog_up,     \* whether a catalog query answers (FALSE: it raises)
    yolo_load,      \* get_detector(): "ok", or "raises" (the model cannot be loaded)
    yolo_backend,   \* what the YOLOv8 model call does
    clarifai_load,  \* get_clarifai_detector(): "ok", or "raises" (no CLARIFAI_PAT)
    clarifai_backend, \* what the Clarifai request does
    use_clarifai,   \* detect_ingredients_hybrid: the fallback decision
    results,        \* detect_ingredients_hybrid: the dict it builds and returns
    image,          \* upload_scan: the uploaded file, "ok" or why it is refused
    auto_detect,    \* upload_scan: the form field auto_detect
    claude_load,    \* get_claude_detector(): "ok", or "raises" (no ANTHROPIC_API_KEY)
    claude_backend, \* what the Claude Vision call does
    scan,           \* upload_scan: the MealScan row committed, None when there is none
    response,       \* upload_scan: the HTTP status returned, 0 before
    llm_manager,    \* the module global _llm_manager: an instance, 0 for None
    manager_lock,   \* _manager_lock: the thread that holds it, 0 when free
    managers,       \* the LLMManager instances constructed so far
    created,        \* get_llm_manager: the instance each thread has built, 0 if none
    manager,        \* what get_llm_manager returned to each thread
    warmups,        \* the number of warmup() calls each thread has made
    returned,       \* what each thread's last warmup() returned
    instance,       \* the module globals _detector_instance, _clarifai_instance and
                    \* _claude_detector, by getter: an instance, 0 for None
    constructions,  \* by getter, the number of detectors constructed so far
    getter,         \* the getter each thread is calling
    fresh,          \* the detector each thread has just constructed, 0 if none
    detector,       \* by thread and getter, the instance last returned, 0 if none
    calls           \* the number of getter calls each thread has made

normVars == <<raw_name, normalized, renormalized>>
mergeVars == <<yolo_matched, clarifai_matched, detections>>
matchVars == <<catalog, detected_name, ingredient, clarifai_ingredient>>
hybridEnv == <<catalog_up, yolo_load, yolo_backend, clarifai_load, clarifai_backend>>
hybridVars == <<hybridEnv, use_clarifai, results, yolo_unmatched>>
scanEnv == <<image, auto_detect, claude_load, claude_backend>>
scanVars == <<scanEnv, scan, response>>
llmVars == <<llm_manager, manager_lock, managers, created, manager, warmups, returned>>
pipelineVars == <<normVars, mergeVars, matchVars, hybridVars, scanVars>>
detectorVars == <<instance, constructions, getter, fresh, detector, calls>>
serviceVars == <<llmVars, detectorVars>>
vars == <<pc, pipelineVars, serviceVars>>

\* Python's None
None == [none |-> TRUE]

\* None (SQL NULL) in a place that otherwise holds text: a sequence whose one
\* element is not a character, so that it differs from every text
NoneText == <<"None">>

NormIdle == raw_name = <<>> /\ normalized = <<>> /\ renormalized = <<>>
MergeIdle == yolo_matched = <<>> /\ clarifai_matched = <<>> /\ detections = <<>>
MatchIdle ==
    /\ catalog = {} /\ detected_name = <<>> /\ ingredient = None
    /\ clarifai_ingredient = None
HybridIdle ==
    /\ catalog_up = TRUE /\ yolo_load = "ok" /\ clarifai_load = "ok"
    /\ yolo_backend = [ok |-> FALSE, hangs |-> FALSE, items |-> <<>>]
    /\ clarifai_backend = [ok |-> FALSE, hangs |-> FALSE, items |-> <<>>]
    /\ use_clarifai = FALSE /\ results = <<>> /\ yolo_unmatched = <<>>
ScanIdle ==
    /\ image = "ok" /\ auto_detect = TRUE /\ claude_load = "ok"
    /\ claude_backend = [kind |-> "api_error", items |-> <<>>]
    /\ scan = None /\ response = 0
LLMIdle ==
    /\ llm_manager = 0 /\ manager_lock = 0 /\ managers = <<>> /\ created = <<>>
    /\ manager = <<>> /\ warmups = <<>> /\ returned = <<>>
DetectorIdle ==
    /\ instance = <<>> /\ constructions = <<>> /\ getter = <<>> /\ fresh = <<>>
    /\ detector = <<>> /\ calls = <<>>

---------------------------------------------------------------------------
(* Text primitives (Python str methods).                                   *)

UpperToLower ==
       ("A" :> "a") @@ ("F" :> "f") @@ ("P" :> "p") @@ ("R" :> "r")
    @@ ("W" :> "w") @@ ("E" :> "e") @@ ("S" :> "s") @@ ("H" :> "h")
    @@ ("L" :> "l") @@ ("J" :> "j") @@ ("U" :> "u") @@ ("I" :> "i")
    @@ ("C" :> "c") @@ ("T" :> "t") @@ ("O" :> "o") @@ ("M" :> "m")
    @@ ("B" :> "b") @@ ("N" :> "n") @@ ("K" :> "k")

\* str.lower()
Lower(s) ==
    [i \in 1..Len(s) |->
        IF s[i] \in DOMAIN UpperToLower THEN UpperToLower[s[i]] ELSE s[i]]

RECURSIVE LStrip(_)
LStrip(s) ==
    IF s # <<>> /\ Head(s) = " " THEN LStrip(Tail(s)) ELSE s

RECURSIVE RStrip(_)
RStrip(s) ==
    IF s # <<>> /\ s[Len(s)] = " " THEN RStrip(SubSeq(s, 1, Len(s) - 1)) ELSE s

\* str.strip()
Strip(s) == RStrip(LStrip(s))

\* s.startswith(p); also lower(name) LIKE 'p%'
StartsWith(s, p) ==
    Len(p) <= Len(s) /\ SubSeq(s, 1, Len(p)) = p

\* `sub in s`; also lower(name) LIKE '%sub%'
Contains(s, sub) ==
    \E i \in 0..(Len(s) - Len(sub)) : SubSeq(s, i + 1, i + Len(sub)) = sub

\* s.replace(old, new): leftmost non-overlapping occurrences, one pass
RECURSIVE Replace(_, _, _)
Replace(s, old, new) ==
    IF Len(s) < Len(old) THEN s
    ELSE IF SubSeq(s, 1, Len(old)) = old
         THEN new \o Replace(SubSeq(s, Len(old) + 1, Len(s)), old, new)
         ELSE <<Head(s)>> \o Replace(Tail(s), old, new)

---------------------------------------------------------------------------
(* app/vision/ingredient_mapper.py: the normaliser's tables.               *)

PLURAL_TO_SINGULAR ==
       (<<"a","p","p","l","e","s">> :> <<"a","p","p","l","e">>)
    @@ (<<"o","r","a","n","g","e","s">> :> <<"o","r","a","n","g","e">>)
    @@ (<<"b","a","n","a","n","a","s">> :> <<"b","a","n","a","n","a">>)
    @@ (<<"c","a","r","r","o","t","s">> :> <<"c","a","r","r","o","t">>)
    @@ (<<"t","o","m","a","t","o","e","s">> :> <<"t","o","m","a","t","o">>)
    @@ (<<"p","o","t","a","t","o","e","s">> :> <<"p","o","t","a","t","o">>)
    @@ (<<"o","n","i","o","n","s">> :> <<"o","n","i","o","n">>)
    @@ (<<"p","e","p","p","e","r","s">> :> <<"p","e","p","p","e","r">>)
    @@ (<<"m","u","s","h","r","o","o","m","s">> :> <<"m","u","s","h","r","o","o","m">>)
    @@ (<<"s","t","r","a","w","b","e","r","r","i","e","s">> :> <<"s","t","r","a","w","b","e","r","r","y">>)
    @@ (<<"b","l","u","e","b","e","r","r","i","e","s">> :> <<"b","l","u","e","b","e","r","r","y">>)
    @@ (<<"r","a","s","p","b","e","r","r","i","e","s">> :> <<"r","a","s","p","b","e","r","r","y">>)
    @@ (<<"c","h","e","r","r","i","e","s">> :> <<"c","h","e","r","r","y">>)
    @@ (<<"p","e","a","c","h","e","s">> :> <<"p","e","a","c","h">>)
    @@ (<<"p","e","a","r","s">> :> <<"p","e","a","r">>)
    @@ (<<"g","r","a","p","e","s">> :> <<"g","r","a","p","e">>)
    @@ (<<"c","u","c","u","m","b","e","r","s">> :> <<"c","u","c","u","m","b","e","r">>)
    @@ (<<"z","u","c","c","h","i","n","i","s">> :> <<"z","u","c","c","h","i","n","i">>)
    @@ (<<"e","g","g","p","l","a","n","t","s">> :> <<"e","g","g","p","l","a","n","t">>)
    @@ (<<"a","v","o","c","a","d","o","s">> :> <<"a","v","o","c","a","d","o">>)
    @@ (<<"m","a","n","g","o","s">> :> <<"m","a","n","g","o">>)
    @@ (<<"m","a","n","g","o","e","s">> :> <<"m","a","n","g","o">>)
    @@ (<<"l","e","m","o","n","s">> :> <<"l","e","m","o","n">>)
    @@ (<<"l","i","m","e","s">> :> <<"l","i","m","e">>)
    @@ (<<"b","e","e","t","s">> :> <<"b","e","e","t">>)
    @@ (<<"b","e","a","n","s">> :> <<"b","e","a","n">>)
    @@ (<<"p","e","a","s">> :> <<"p","e","a">>)
    @@ (<<"n","u","t","s">> :> <<"n","u","t">>)
    @@ (<<"a","l","m","o","n","d","s">> :> <<"a","l","m","o","n","d">>)
    @@ (<<"w","a","l","n","u","t","s">> :> <<"w","a","l","n","u","t">>)

INGREDIENT_ALIASES ==
       (<<"r","e","d"," ","b","e","l","l"," ","p","e","p","p","e","r">> :> <<"b","e","l","l"," ","p","e","p","p","e","r">>)
    @@ (<<"g","r","e","e","n"," ","b","e","l","l"," ","p","e","p","p","e","r">> :> <<"b","e","l","l"," ","p","e","p","p","e","r">>)
    @@ (<<"y","e","l","l","o","w"," ","b","e","l","l"," ","p","e","p","p","e","r">> :> <<"b","e","l","l"," ","p","e","p","p","e","r">>)
    @@ (<<"r","e","d"," ","p","e","p","p","e","r">> :> <<"b","e","l","l"," ","p","e","p","p","e","r">>)
    @@ (<<"s","w","e","e","t"," ","p","e","p","p","e","r">> :> <<"b","e","l","l"," ","p","e","p","p","e","r">>)
    @@ (<<"b","e","l","l"," ","p","e","p","p","e","r","s">> :> <<"b","e","l","l"," ","p","e","p","p","e","r">>)
    @@ (<<"r","e","d"," ","o","n","i","o","n">> :> <<"o","n","i","o","n">>)
    @@ (<<"w","h","i","t","e"," ","o","n","i","o","n">> :> <<"o","n","i","o","n">>)
    @@ (<<"y","e","l","l","o","w"," ","o","n","i","o","n">> :> <<"o","n","i","o","n">>)
    @@ (<<"g","r","e","e","n"," ","o","n","i","o","n">> :> <<"o","n","i","o","n">>)
    @@ (<<"s","c","a","l","l","i","o","n">> :> <<"o","n","i","o","n">>)
    @@ (<<"s","h","a","l","l","o","t">> :> <<"o","n","i","o","n">>)
    @@ (<<"r","o","m","a"," ","t","o","m","a","t","o">> :> <<"t","o","m","a","t","o">>)
    @@ (<<"c","h","e","r","r","y"," ","t","o","m","a","t","o">> :> <<"t","o","m","a","t","o">>)
    @@ (<<"g","r","a","p","e"," ","t","o","m","a","t","o">> :> <<"t","o","m","a","t","o">>)
    @@ (<<"w","h","o","l","e"," ","e","g","g">> :> <<"e","g","g">>)
    @@ (<<"c","h","i","c","k","e","n"," ","e","g","g">> :> <<"e","g","g">>)
    @@ (<<"w","h","o","l","e"," ","w","h","e","a","t"," ","b","r","e","a","d">> :> <<"b","r","e","a","d">>)
    @@ (<<"w","h","i","t","e"," ","b","r","e","a","d">> :> <<"b","r","e","a","d">>)
    @@ (<<"w","h","e","a","t"," ","b","r","e","a","d">> :> <<"b","r","e","a","d">>)
    @@ (<<"o","l","i","v","e"," ","o","i","l">> :> <<"o","i","l">>)
    @@ (<<"v","e","g","e","t","a","b","l","e"," ","o","i","l">> :> <<"o","i","l">>)
    @@ (<<"c","a","n","o","l","a"," ","o","i","l">> :> <<"o","i","l">>)

\* The four descriptive modifiers removed by normalize_detection_name.
FRESH == <<"f","r","e","s","h"," ">>
RAW == <<"r","a","w"," ">>
COOKED == <<"c","o","o","k","e","d"," ">>
ORGANIC == <<"o","r","g","a","n","i","c"," ">>

\* what a call yields when `name.lower()` is evaluated on None: the
\* exception "'NoneType' object has no attribute 'lower'" leaves the
\* function; like NoneText it differs from every text
AttributeError == <<"AttributeError">>

normalize_detection_name(name) ==
    IF name = NoneText THEN AttributeError
    ELSE
    LET n0 == Strip(Lower(name))
        n1 == IF n0 \in DOMAIN INGREDIENT_ALIASES THEN INGREDIENT_ALIASES[n0] ELSE n0
        n2 == IF n1 \in DOMAIN PLURAL_TO_SINGULAR THEN PLURAL_TO_SINGULAR[n1] ELSE n1
        n3 == Replace(n2, FRESH, <<>>)
        n4 == Replace(n3, RAW, <<>>)
        n5 == Replace(n4, COOKED, <<>>)
    IN  Replace(n5, ORGANIC, <<>>)

---------------------------------------------------------------------------
(* Labels given to the normaliser: up to MaxPieces pieces, each a          *)
(* descriptive modifier, an alias-table key, a plural-table key, another   *)
(* word (one of them with the letters of a modifier inside it) or a blank, *)
(* in lower or upper case; or None, which is what                          *)
(* process_yolo_detections passes on for a detection without 'class_name'  *)
(* (yolo_class = detection.get('class_name')).                             *)

MaxPieces == 2

Pieces ==
    { FRESH, RAW, COOKED, ORGANIC,
      <<"F","r","e","s","h"," ">>,
      <<"r","e","d"," ","o","n","i","o","n">>,
      <<"b","e","l","l"," ","p","e","p","p","e","r","s">>,
      <<"a","p","p","l","e","s">>,
      <<"A","P","P","L","E","S">>,
      <<"o","n","i","o","n","s">>,
      <<"k","i","w","i">>,
      <<"s","t","r","a","w"," ","m","u","s","h","r","o","o","m">>,
      <<" ">> }

RECURSIVE Concat(_)
Concat(ps) == IF ps = <<>> THEN <<>> ELSE Head(ps) \o Concat(Tail(ps))

Labels ==
    { Concat(ps) : ps \in UNION { [1..n -> Pieces] : n \in 0..MaxPieces } }

InitNormalize ==
    /\ pc = "normalize"
    /\ \/ raw_name \in Labels
       \/ raw_name = NoneText
    /\ normalized = <<>>
    /\ renormalized = <<>>
    /\ MergeIdle
    /\ MatchIdle
    /\ HybridIdle
    /\ ScanIdle
    /\ LLMIdle
    /\ DetectorIdle

\* search_term = normalize_detection_name(detected_name)
Normalize ==
    /\ pc = "normalize"
    /\ normalized' = normalize_detection_name(raw_name)
    /\ pc' = IF normalized' = AttributeError THEN "raised" ELSE "normalized"
    /\ UNCHANGED <<raw_name, renormalized, mergeVars, matchVars, hybridVars, scanVars, serviceVars>>

\* the normaliser applied to its own output
NormalizeAgain ==
    /\ pc = "normalized"
    /\ renormalized' = normalize_detection_name(normalized)
    /\ pc' = "renormalized"
    /\ UNCHANGED <<raw_name, normalized, mergeVars, matchVars, hybridVars, scanVars, serviceVars>>

NextNormalize == Normalize \/ NormalizeAgain

SpecNormalize == InitNormalize /\ [][NextNormalize]_vars

\* C6: normalising twice gives what normalising once gives
\*     (normalize(normalize(x)) = normalize(x) for every label x).
C6_Idempotent ==
    pc = "renormalized" => renormalized = normalized

\* C14: normalize_detection_name never fails and returns a string for every
\*      value passed to it, the None of a detection without class name
\*      included.
C14_NormalizeTotal ==
    pc \in {"normalized", "raised"} =>
        /\ pc = "normalized"
        /\ normalized # AttributeError

\* the label as it stands before the modifiers are removed: lowercased and
\* trimmed, then the alias and the plural lookups
BeforeModifiers(name) ==
    LET n0 == Strip(Lower(name))
        n1 == IF n0 \in DOMAIN INGREDIENT_ALIASES THEN INGREDIENT_ALIASES[n0] ELSE n0
    IN  IF n1 \in DOMAIN PLURAL_TO_SINGULAR THEN PLURAL_TO_SINGULAR[n1] ELSE n1

\* s ends with suffix
EndsWith(s, suffix) ==
    Len(suffix) <= Len(s) /\ SubSeq(s, Len(s) - Len(suffix) + 1, Len(s)) = suffix

\* C22: the modifiers 'fresh ', 'raw ', 'cooked ', 'organic ' are removed
\*      only at the start of the label: what is returned is the end of the
\*      label as it stood before the removal, and a label that starts with
\*      none of the four is returned as it stood, an occurrence further
\*      inside it left intact.
C22_ModifiersOnlyAsPrefix ==
    (pc = "normalized" /\ raw_name # NoneText) =>
        LET label == BeforeModifiers(raw_name)
        IN  /\ EndsWith(label, normalized)
            /\ (\A m \in {FRESH, RAW, COOKED, ORGANIC} : ~StartsWith(label, m))
                    => normalized = label

---------------------------------------------------------------------------
(* app/vision/hybrid_detector.py: merge_detections.                        *)
(* A matched ingredient is [ingredient_id, confidence, source].  The dict  *)
(* `merged` is the sequence of its values in insertion order, which is the *)
(* order merged.values() yields.                                           *)

\* the position of key ingredient_id in merged, 0 when absent
KeyIndex(merged, ingredient_id) ==
    IF \E i \in 1..Len(merged) : merged[i].ingredient_id = ingredient_id
    THEN CHOOSE i \in 1..Len(merged) : merged[i].ingredient_id = ingredient_id
    ELSE 0

\* a faulty merged[ingredient_id] = detection that keeps both entries
DictSetKeepBoth(merged, detection) == Append(merged, detection)

\* merged[ingredient_id] = detection: an existing key keeps its position
DictSet(merged, detection) ==
    LET i == KeyIndex(merged, detection.ingredient_id)
    IN  IF i = 0 THEN Append(merged, detection)
        ELSE [merged EXCEPT ![i] = detection]

\* the loop over yolo_results: every entry is stored under its id
RECURSIVE AddYolo(_, _)
AddYolo(merged, yolo_results) ==
    IF yolo_results = <<>> THEN merged
    ELSE AddYolo(DictSet(merged, Head(yolo_results)), Tail(yolo_results))

\* a faulty loop over clarifai_results: an id that YOLO did not report is
\* dropped
RECURSIVE AddClarifaiKnownOnly(_, _)
AddClarifaiKnownOnly(merged, clarifai_results) ==
    IF clarifai_results = <<>> THEN merged
    ELSE LET detection == Head(clarifai_results)
             i == KeyIndex(merged, detection.ingredient_id)
             next == IF i = 0 THEN merged
                     ELSE IF detection.confidence > merged[i].confidence
                          THEN DictSet(merged, detection)
                          ELSE merged
         IN  AddClarifaiKnownOnly(next, Tail(clarifai_results))

\* a faulty loop over clarifai_results: a known id is replaced also by an
\* equal confidence
RECURSIVE AddClarifaiOnTie(_, _)
AddClarifaiOnTie(merged, clarifai_results) ==
    IF clarifai_results = <<>> THEN merged
    ELSE LET detection == Head(clarifai_results)
             i == KeyIndex(merged, detection.ingredient_id)
             next == IF i = 0 THEN DictSet(merged, detection)
                     ELSE IF detection.confidence >= merged[i].confidence
                          THEN DictSet(merged, detection)
                          ELSE merged
         IN  AddClarifaiOnTie(next, Tail(clarifai_results))

\* the loop over clarifai_results: a new id is added, a known id is
\* replaced only by a strictly greater confidence
RECURSIVE AddClarifai(_, _)
AddClarifai(merged, clarifai_results) ==
    IF clarifai_results = <<>> THEN merged
    ELSE LET detection == Head(clarifai_results)
             i == KeyIndex(merged, detection.ingredient_id)
             next == IF i = 0 THEN DictSet(merged, detection)
                     ELSE IF detection.confidence > merged[i].confidence
                          THEN DictSet(merged, detection)
                          ELSE merged
         IN  AddClarifai(next, Tail(clarifai_results))

\* one step of the stable sort: d goes after every entry that is not below it
InsertByConfidence(sorted, d) ==
    LET k == Cardinality({i \in 1..Len(sorted) : sorted[i].confidence >= d.confidence})
    IN  SubSeq(sorted, 1, k) \o <<d>> \o SubSeq(sorted, k + 1, Len(sorted))

\* sorted(values, key=confidence, reverse=True): stable, equal keys keep
\* their order
RECURSIVE SortByConfidence(_, _)
SortByConfidence(sorted, values) ==
    IF values = <<>> THEN sorted
    ELSE SortByConfidence(InsertByConfidence(sorted, Head(values)), Tail(values))

merge_detections(yolo_results, clarifai_results) ==
    SortByConfidence(<<>>, AddClarifai(AddYolo(<<>>, yolo_results), clarifai_results))

\* the sources a merged entry records: its one 'source' key
ContributingSources(entry) == {entry.source}

---------------------------------------------------------------------------
(* Inputs of merge_detections: any two lists of matched ingredients, with  *)
(* repeated ids inside a list and across the lists.                        *)

MaxIngredientId == 2
MaxMatched == 2

IngredientIds == 1..MaxIngredientId
Confidences == {60, 85, 90}

Matched(source) ==
    [ingredient_id : IngredientIds, confidence : Confidences, source : {source}]

MatchedLists(source) ==
    UNION { [1..n -> Matched(source)] : n \in 0..MaxMatched }

InitMerge ==
    /\ pc = "merge"
    /\ yolo_matched \in MatchedLists("yolo")
    /\ clarifai_matched \in MatchedLists("clarifai")
    /\ detections = <<>>
    /\ NormIdle
    /\ MatchIdle
    /\ HybridIdle
    /\ ScanIdle
    /\ LLMIdle
    /\ DetectorIdle

\* all_matched = merge_detections(yolo_matched, clarifai_matched)
Merge ==
    /\ pc = "merge"
    /\ detections' = merge_detections(yolo_matched, clarifai_matched)
    /\ pc' = "merged"
    /\ UNCHANGED <<yolo_matched, clarifai_matched, normVars, matchVars, hybridVars,
                   scanVars, serviceVars>>

NextMerge == Merge

SpecMerge == InitMerge /\ [][NextMerge]_vars

Inputs == yolo_matched \o clarifai_matched

InputsOf(ingredient_id) ==
    {i \in 1..Len(Inputs) : Inputs[i].ingredient_id = ingredient_id}

MaxConfidence(ingredient_id) ==
    CHOOSE c \in {Inputs[i].confidence : i \in InputsOf(ingredient_id)} :
        \A i \in InputsOf(ingredient_id) : Inputs[i].confidence <= c

\* C1: the merged list holds no two entries with the same ingredient_id.
C1_NoDuplicateIds ==
    pc = "merged" =>
        \A i, j \in 1..Len(detections) :
            detections[i].ingredient_id = detections[j].ingredient_id => i = j

\* C1 witness: ids repeated inside a list and across the lists were merged.
C1_Witness ==
    /\ pc = "merged"
    /\ Len(yolo_matched) = 2
    /\ yolo_matched[1].ingredient_id = yolo_matched[2].ingredient_id
    /\ \E i \in 1..Len(clarifai_matched) :
           clarifai_matched[i].ingredient_id = yolo_matched[1].ingredient_id
    /\ Len(detections) = 2

\* C2: every merged entry carries the maximum confidence over all input
\*     entries with its id, from both lists together.
C2_MaxConfidence ==
    pc = "merged" =>
        \A i \in 1..Len(detections) :
            detections[i].confidence = MaxConfidence(detections[i].ingredient_id)

\* C3: the merged list is in descending order of confidence, and entries of
\*     equal confidence are in ascending order of ingredient_id.
C3_Ordering ==
    pc = "merged" =>
        \A i, j \in 1..Len(detections) :
            i < j =>
                \/ detections[i].confidence > detections[j].confidence
                \/ /\ detections[i].confidence = detections[j].confidence
                   /\ detections[i].ingredient_id < detections[j].ingredient_id

\* C4: an id reported by both sources is merged into one entry that records
\*     both sources and the higher of the confidences.
C4_BothSources ==
    pc = "merged" =>
        \A id \in IngredientIds :
            ( /\ \E i \in 1..Len(yolo_matched) : yolo_matched[i].ingredient_id = id
              /\ \E i \in 1..Len(clarifai_matched) : clarifai_matched[i].ingredient_id = id )
            => \E i \in 1..Len(detections) :
                   /\ detections[i].ingredient_id = id
                   /\ detections[i].confidence = MaxConfidence(id)
                   /\ ContributingSources(detections[i]) = {"yolo", "clarifai"}

Reorderings(s) ==
    { [i \in 1..Len(s) |-> s[f[i]]] : f \in Permutations(1..Len(s)) }

\* C5: the same input tuples in another order within the lists give the
\*     identical ordered output.
C5_OrderIndependent ==
    pc = "merged" =>
        \A y \in Reorderings(yolo_matched), c \in Reorderings(clarifai_matched) :
            merge_detections(y, c) = detections

\* the ingredient ids of the entries of a list
IdsOf(list) == {list[i].ingredient_id : i \in 1..Len(list)}

\* C24: the merged list has exactly one entry per ingredient id of the two
\*      input lists: its ids are the union of the ids of both lists, their
\*      number is the length of the list, and every entry is an entry of
\*      one of the input lists.
C24_OneEntryPerGroup ==
    pc = "merged" =>
        /\ IdsOf(detections) = IdsOf(yolo_matched) \cup IdsOf(clarifai_matched)
        /\ Len(detections) = Cardinality(IdsOf(yolo_matched) \cup IdsOf(clarifai_matched))
        /\ \A i \in 1..Len(detections) :
               \E j \in 1..Len(Inputs) : detections[i] = Inputs[j]

\* C24 witness: an id reported twice by YOLO alone and another reported by
\*      Clarifai alone were merged into two entries.
C24_Witness ==
    /\ pc = "merged"
    /\ Len(yolo_matched) = 2
    /\ IdsOf(yolo_matched) = {1}
    /\ IdsOf(clarifai_matched) = {2}
    /\ Len(detections) = 2

\* the entry `merged` holds for ingredient_id after the loop over
\* yolo_results: the last YOLO entry with that id
LastYolo(ingredient_id) ==
    LET last == CHOOSE j \in 1..Len(yolo_matched) :
                    /\ yolo_matched[j].ingredient_id = ingredient_id
                    /\ \A k \in (j + 1)..Len(yolo_matched) :
                           yolo_matched[k].ingredient_id # ingredient_id
    IN  yolo_matched[last]

\* C30: for an id that both sources report, the YOLO entry is kept
\*      unchanged when no Clarifai entry of that id has a greater
\*      confidence, an equal confidence included; a Clarifai entry stands in
\*      the output for such an id only with a strictly greater confidence.
C30_TieKeepsPrimary ==
    pc = "merged" =>
        \A i \in 1..Len(detections) :
            LET d == detections[i]
            IN  d.ingredient_id \in IdsOf(yolo_matched) =>
                    /\ (\A k \in 1..Len(clarifai_matched) :
                            clarifai_matched[k].ingredient_id = d.ingredient_id
                                => clarifai_matched[k].confidence
                                       <= LastYolo(d.ingredient_id).confidence)
                           => d = LastYolo(d.ingredient_id)
                    /\ d.source = "clarifai"
                           => d.confidence > LastYolo(d.ingredient_id).confidence

\* C30 witness: both sources reported one id with the same confidence and
\*      the entry of the output is the YOLO one.
C30_Witness ==
    /\ pc = "merged"
    /\ \E j \in 1..Len(yolo_matched), k \in 1..Len(clarifai_matched) :
           /\ yolo_matched[j].ingredient_id = clarifai_matched[k].ingredient_id
           /\ yolo_matched[j].confidence = clarifai_matched[k].confidence
           /\ \E i \in 1..Len(detections) : detections[i] = yolo_matched[j]

---------------------------------------------------------------------------
(* app/vision/ingredient_mapper.py: map_detection_to_ingredient.           *)
(* A catalog row is [id, name, name_es, is_deleted].  A query's .first()   *)
(* without ORDER BY may return any matching row; with ORDER BY             *)
(* length(name) it returns any of the matching rows of least length.       *)

\* search_terms: the normalised name, preceded by the lowercased original
\* when the two differ
SearchTerms(name) ==
    LET search_term == normalize_detection_name(name)
    IN  IF Lower(name) # search_term THEN <<Lower(name), search_term>>
        ELSE <<search_term>>

\* filter(lower(Ingredient.name) == term)
ExactRows(term) == {row \in catalog : Lower(row.name) = term}

\* filter(lower(Ingredient.name).like(f'{term}%'))
PrefixRows(term) == {row \in catalog : StartsWith(Lower(row.name), term)}

\* filter(lower(Ingredient.name).like(f'%{term}%'))
ContainsRows(term) == {row \in catalog : Contains(Lower(row.name), term)}

\* order_by(length(Ingredient.name)).first()
Shortest(rows) == {row \in rows : \A other \in rows : Len(row.name) <= Len(other.name)}

\* a faulty body of the loop: the prefix query comes first and has lost its
\* ORDER BY, as the queries of map_clarifai_to_ingredients have none
MatchTermPrefixFirst(term) ==
    IF PrefixRows(term) # {} THEN PrefixRows(term)
    ELSE IF ExactRows(term) # {} THEN ExactRows(term)
    ELSE Shortest(ContainsRows(term))

\* one pass of the loop over search_terms: the rows it may return for term,
\* none when all three strategies miss
MatchTerm(term) ==
    IF ExactRows(term) # {} THEN ExactRows(term)
    ELSE IF PrefixRows(term) # {} THEN Shortest(PrefixRows(term))
    ELSE Shortest(ContainsRows(term))

RECURSIVE MatchTerms(_)
MatchTerms(search_terms) ==
    IF search_terms = <<>> THEN {None}
    ELSE IF MatchTerm(Head(search_terms)) # {} THEN MatchTerm(Head(search_terms))
    ELSE MatchTerms(Tail(search_terms))

\* a faulty matcher: a label that no strategy matches resolves to some row
\* of the table instead of None
map_detection_or_any_row(name) ==
    IF MatchTerms(SearchTerms(name)) = {None} /\ catalog # {} THEN catalog
    ELSE MatchTerms(SearchTerms(name))

\* the values map_detection_to_ingredient(name) may return
map_detection_to_ingredient(name) == MatchTerms(SearchTerms(name))

---------------------------------------------------------------------------
(* Catalogs and labels given to the matcher.                               *)

MaxCatalog == 3

\* (name, name_es) of the rows a table may hold; name_es is nullable
CatalogNames ==
    { [name |-> <<"A","p","p","l","e">>, name_es |-> <<"M","a","n","z","a","n","a">>],
      [name |-> <<"A","p","p","l","e"," ","J","u","i","c","e">>, name_es |-> NoneText],
      [name |-> <<"P","i","n","e","a","p","p","l","e">>, name_es |-> NoneText],
      [name |-> <<"A","p","p","l","e","s","a","u","c","e">>, name_es |-> NoneText] }

DetectedNames ==
    { <<"a","p","p","l","e">>,
      <<"A","p","p","l","e">>,
      <<"a","p","p","l","e","s">>,
      <<"a","p","p","l","e"," ">>,
      <<"f","r","e","s","h"," ","a","p","p","l","e">>,
      <<"p","i","n","e">>,
      <<"m","a","n","z","a","n","a">>,
      <<"a","p","p","l","e"," ","p","i","e">>,
      <<"k","i","w","i">> }

\* every table with ids in 1..MaxCatalog, the id being the primary key
Catalogs ==
    { { [id |-> id, name |-> f[id].names.name, name_es |-> f[id].names.name_es,
         is_deleted |-> f[id].is_deleted] :
            id \in {i \in 1..MaxCatalog : f[i] # None} } :
        f \in [1..MaxCatalog -> {None} \cup [names : CatalogNames, is_deleted : BOOLEAN]] }

InitMatch ==
    /\ pc = "map"
    /\ catalog \in Catalogs
    /\ detected_name \in DetectedNames
    /\ ingredient = None
    /\ clarifai_ingredient = None
    /\ NormIdle
    /\ MergeIdle
    /\ HybridIdle
    /\ ScanIdle
    /\ LLMIdle
    /\ DetectorIdle

\* ingredient = map_detection_to_ingredient(food_name)
MapDetection ==
    /\ pc = "map"
    /\ ingredient' \in map_detection_to_ingredient(detected_name)
    /\ pc' = "mapped"
    /\ UNCHANGED <<catalog, detected_name, clarifai_ingredient, normVars, mergeVars,
                   hybridVars, scanVars, serviceVars>>

\* C7: when a row's name equals the label case-insensitively, the matcher
\*     returns such a row, also when other rows merely start with the label.
C7_ExactBeforePrefix ==
    pc = "mapped" =>
        ( (\E row \in catalog : Lower(row.name) = Lower(detected_name))
          => /\ ingredient # None
             /\ Lower(ingredient.name) = Lower(detected_name) )

\* C7 witness: the label has an exact row and a longer row starting with it,
\*     and the exact row was returned.
C7_Witness ==
    /\ pc = "mapped"
    /\ ingredient # None
    /\ Lower(ingredient.name) = Lower(detected_name)
    /\ \E row \in catalog :
           /\ StartsWith(Lower(row.name), Lower(detected_name))
           /\ Lower(row.name) # Lower(detected_name)

\* C17: when the lowercased label and the normalised label differ and a
\*      row's name equals the normalised label, the matcher returns a row
\*      whose name equals one of the two: never a row that merely starts
\*      with or contains the raw label.
C17_RawLabelExactOnly ==
    pc = "mapped" =>
        LET raw == Lower(detected_name)
            search_term == normalize_detection_name(detected_name)
        IN  (raw # search_term /\ \E row \in catalog : Lower(row.name) = search_term)
                => /\ ingredient # None
                   /\ Lower(ingredient.name) \in {raw, search_term}

---------------------------------------------------------------------------
(* app/vision/hybrid_detector.py: map_clarifai_to_ingredients.             *)

\* plural_map, local to map_clarifai_to_ingredients
plural_map ==
       (<<"b","e","e","t","s">> :> <<"b","e","e","t">>)
    @@ (<<"c","a","r","r","o","t","s">> :> <<"c","a","r","r","o","t">>)
    @@ (<<"t","o","m","a","t","o","e","s">> :> <<"t","o","m","a","t","o">>)
    @@ (<<"p","o","t","a","t","o","e","s">> :> <<"p","o","t","a","t","o">>)
    @@ (<<"o","n","i","o","n","s">> :> <<"o","n","i","o","n">>)
    @@ (<<"p","e","p","p","e","r","s">> :> <<"p","e","p","p","e","r">>)
    @@ (<<"m","u","s","h","r","o","o","m","s">> :> <<"m","u","s","h","r","o","o","m">>)
    @@ (<<"a","p","p","l","e","s">> :> <<"a","p","p","l","e">>)
    @@ (<<"o","r","a","n","g","e","s">> :> <<"o","r","a","n","g","e">>)
    @@ (<<"b","a","n","a","n","a","s">> :> <<"b","a","n","a","n","a">>)
    @@ (<<"s","t","r","a","w","b","e","r","r","i","e","s">> :> <<"s","t","r","a","w","b","e","r","r","y">>)
    @@ (<<"b","l","u","e","b","e","r","r","i","e","s">> :> <<"b","l","u","e","b","e","r","r","y">>)
    @@ (<<"r","a","s","p","b","e","r","r","i","e","s">> :> <<"r","a","s","p","b","e","r","r","y">>)

\* search_terms = [food_name], plus its singular when plural_map has it
ClarifaiSearchTerms(food_name) ==
    IF food_name \in DOMAIN plural_map THEN <<food_name, plural_map[food_name]>>
    ELSE <<food_name>>

\* Ingredient.is_deleted == False
LiveRows == {row \in catalog : ~row.is_deleted}

\* lower(name) == term or lower(name_es) == term
ClarifaiExactRows(term) ==
    {row \in LiveRows :
        \/ Lower(row.name) = term
        \/ row.name_es # NoneText /\ Lower(row.name_es) = term}

\* lower(name) like 'term%' or lower(name_es) like 'term%'
ClarifaiPrefixRows(term) ==
    {row \in LiveRows :
        \/ StartsWith(Lower(row.name), term)
        \/ row.name_es # NoneText /\ StartsWith(Lower(row.name_es), term)}

\* lower(name) like '%term%' or lower(name_es) like '%term%'
ClarifaiContainsRows(term) ==
    {row \in LiveRows :
        \/ Contains(Lower(row.name), term)
        \/ row.name_es # NoneText /\ Contains(Lower(row.name_es), term)}

\* strategies 1 to 3 for one term; every query ends in .first() without
\* ORDER BY
ClarifaiMatchTerm(term) ==
    IF ClarifaiExactRows(term) # {} THEN ClarifaiExactRows(term)
    ELSE IF ClarifaiPrefixRows(term) # {} THEN ClarifaiPrefixRows(term)
    ELSE ClarifaiContainsRows(term)

\* strategy 4: the scan of the first 100 live rows for `term in name`
ReverseRows(term) ==
    {row \in LiveRows :
        \/ Contains(Lower(row.name), term)
        \/ row.name_es # NoneText /\ Contains(Lower(row.name_es), term)}

RECURSIVE ClarifaiReverse(_)
ClarifaiReverse(search_terms) ==
    IF search_terms = <<>> THEN {None}
    ELSE IF ReverseRows(Head(search_terms)) # {} THEN ReverseRows(Head(search_terms))
    ELSE ClarifaiReverse(Tail(search_terms))

RECURSIVE ClarifaiMatchTerms(_, _)
ClarifaiMatchTerms(search_terms, all_terms) ==
    IF search_terms = <<>> THEN ClarifaiReverse(all_terms)
    ELSE IF ClarifaiMatchTerm(Head(search_terms)) # {}
         THEN ClarifaiMatchTerm(Head(search_terms))
         ELSE ClarifaiMatchTerms(Tail(search_terms), all_terms)

\* the rows one Clarifai detection may resolve to, None when unmatched
ClarifaiIngredient(class_name) ==
    LET search_terms == ClarifaiSearchTerms(Strip(Lower(class_name)))
    IN  ClarifaiMatchTerms(search_terms, search_terms)

\* the same label is resolved as map_clarifai_to_ingredients resolves the
\* class_name of a Clarifai detection
MapClarifaiDetection ==
    /\ pc = "mapped"
    /\ clarifai_ingredient' \in ClarifaiIngredient(detected_name)
    /\ pc' = "resolved"
    /\ UNCHANGED <<catalog, detected_name, ingredient, normVars, mergeVars,
                   hybridVars, scanVars, serviceVars>>

NextMatch == MapDetection \/ MapClarifaiDetection

SpecMatch == InitMatch /\ [][NextMatch]_vars

\* C20: both resolutions give the same outcome for every label and table:
\*      the row (or None) that map_clarifai_to_ingredients resolves a label
\*      to is one that normalize_detection_name followed by
\*      map_detection_to_ingredient can return, and the other way round.
C20_SameResolution ==
    pc = "resolved" =>
        /\ clarifai_ingredient \in map_detection_to_ingredient(detected_name)
        /\ ingredient \in ClarifaiIngredient(detected_name)

\* the live rows whose name occurs inside the label
NamesInsideLabel(label) ==
    {row \in LiveRows : Contains(Strip(Lower(label)), Lower(row.name))}

\* strategies 1 to 3 of map_clarifai_to_ingredients miss for every search
\* term of the label
ClarifaiFirstThreeFail(label) ==
    \A i \in 1..Len(ClarifaiSearchTerms(Strip(Lower(label)))) :
        ClarifaiMatchTerm(ClarifaiSearchTerms(Strip(Lower(label)))[i]) = {}

\* the three strategies of map_detection_to_ingredient miss for every search
\* term of the label
MapperFirstThreeFail(label) ==
    \A i \in 1..Len(SearchTerms(label)) : MatchTerm(SearchTerms(label)[i]) = {}

\* C21: on both resolution paths, a label that the exact, prefix and
\*      substring strategies do not match but that contains the name of a
\*      live row is resolved to a row whose name it contains.
C21_ReverseContainment ==
    pc = "resolved" =>
        /\ (ClarifaiFirstThreeFail(detected_name) /\ NamesInsideLabel(detected_name) # {})
               => clarifai_ingredient \in NamesInsideLabel(detected_name)
        /\ (MapperFirstThreeFail(detected_name) /\ NamesInsideLabel(detected_name) # {})
               => ingredient \in NamesInsideLabel(detected_name)

\* the rows of least name length among rows
ShortestName(rows) ==
    {row \in rows : \A other \in rows : Len(row.name) <= Len(other.name)}

\* C23: when no exact match exists for a search term and several rows match
\*      it by prefix (or, no prefix match existing, by substring), the row
\*      returned for that term is one of the shortest name among them, on
\*      the path of map_detection_to_ingredient and on the path of
\*      map_clarifai_to_ingredients.  The labels looked at are those with a
\*      single search term on both paths.
C23_ShortestCandidate ==
    LET term == Lower(detected_name)
    IN  ( /\ pc = "resolved"
          /\ SearchTerms(detected_name) = <<term>>
          /\ ClarifaiSearchTerms(Strip(term)) = <<term>> )
        => /\ (ExactRows(term) = {} /\ PrefixRows(term) # {})
                  => ingredient \in ShortestName(PrefixRows(term))
           /\ (PrefixRows(term) = {} /\ ContainsRows(term) # {})
                  => ingredient \in ShortestName(ContainsRows(term))
           /\ (ClarifaiExactRows(term) = {} /\ ClarifaiPrefixRows(term) # {})
                  => clarifai_ingredient \in ShortestName(ClarifaiPrefixRows(term))
           /\ (ClarifaiPrefixRows(term) = {} /\ ClarifaiContainsRows(term) # {})
                  => clarifai_ingredient \in ShortestName(ClarifaiContainsRows(term))

\* C26: no label is resolved to a soft-deleted row, by
\*      map_detection_to_ingredient or by map_clarifai_to_ingredients.
C26_NeverSoftDeleted ==
    /\ pc \in {"mapped", "resolved"} => (ingredient # None => ~ingredient.is_deleted)
    /\ pc = "resolved" => (clarifai_ingredient # None => ~clarifai_ingredient.is_deleted)

\* the entry appended to `matched` for a detection that resolved to row
MatchedEntry(row, detection, source) ==
    [ingredient_id |-> row.id, detected_as |-> detection.class_name,
     confidence |-> detection.confidence, source |-> source]

\* the lists map_clarifai_to_ingredients may return
RECURSIVE map_clarifai_to_ingredients(_)
map_clarifai_to_ingredients(clarifai_detections) ==
    IF clarifai_detections = <<>> THEN {<<>>}
    ELSE LET detection == Head(clarifai_detections)
         IN  { (IF row = None THEN <<>>
                ELSE <<MatchedEntry(row, detection, "clarifai")>>) \o rest :
                 row \in ClarifaiIngredient(detection.class_name),
                 rest \in map_clarifai_to_ingredients(Tail(clarifai_detections)) }

\* the entry appended to unmatched_detections
UnmatchedEntry(detection) ==
    [yolo_class |-> detection.class_name, confidence |-> detection.confidence]

\* a faulty loop of process_yolo_detections: the `else` is lost and every
\* detection is appended to the unmatched list
RECURSIVE process_yolo_detections_no_else(_)
process_yolo_detections_no_else(yolo_detections) ==
    IF yolo_detections = <<>>
    THEN {[matched |-> <<>>, unmatched |-> <<>>, total_detected |-> 0,
           total_matched |-> 0]}
    ELSE LET detection == Head(yolo_detections)
         IN  { [matched |->
                    (IF row = None THEN <<>>
                     ELSE <<MatchedEntry(row, detection, "yolo")>>) \o rest.matched,
                unmatched |-> <<UnmatchedEntry(detection)>> \o rest.unmatched,
                total_detected |-> Len(yolo_detections),
                total_matched |-> (IF row = None THEN 0 ELSE 1) + rest.total_matched] :
                 row \in map_detection_to_ingredient(detection.class_name),
                 rest \in process_yolo_detections_no_else(Tail(yolo_detections)) }

\* the dicts process_yolo_detections may return
RECURSIVE process_yolo_detections(_)
process_yolo_detections(yolo_detections) ==
    IF yolo_detections = <<>>
    THEN {[matched |-> <<>>, unmatched |-> <<>>, total_detected |-> 0,
           total_matched |-> 0]}
    ELSE LET detection == Head(yolo_detections)
         IN  { [matched |->
                    (IF row = None THEN <<>>
                     ELSE <<MatchedEntry(row, detection, "yolo")>>) \o rest.matched,
                unmatched |->
                    (IF row = None THEN <<UnmatchedEntry(detection)>>
                     ELSE <<>>) \o rest.unmatched,
                total_detected |-> Len(yolo_detections),
                total_matched |-> (IF row = None THEN 0 ELSE 1) + rest.total_matched] :
                 row \in map_detection_to_ingredient(detection.class_name),
                 rest \in process_yolo_detections(Tail(yolo_detections)) }

---------------------------------------------------------------------------
(* The detector adapters.  A backend outcome is [ok, hangs, items]: the    *)
(* call returned items, or (ok FALSE) it raised or answered with a failure *)
(* status, or (hangs TRUE) it never returns: neither the model call nor    *)
(* stub.PostModelOutputs is given a timeout.  An adapter result is a dict: *)
(* a record whose DOMAIN is the set of its keys.                           *)

\* the dict appended for a box: {'class_id', 'class_name', 'confidence',
\* 'bbox'}, of which the pipeline reads the name and the confidence
YoloDetection(box) ==
    [class_name |-> box.class_name, confidence |-> box.confidence]

\* app/vision/detector.py: IngredientDetector.detect_ingredients; the model
\* call applies conf_threshold itself
IngredientDetector_detect_ingredients(backend) ==
    IF backend.ok
    THEN [detections |-> [i \in 1..Len(backend.items) |-> YoloDetection(backend.items[i])],
          total_detected |-> Len(backend.items)]
    ELSE [error |-> "Detection failed", detections |-> <<>>, total_detected |-> 0]

\* the concepts with confidence >= min_confidence, in order
KeepConfident(items, min_confidence) ==
    SelectSeq(items, LAMBDA item : item.confidence >= min_confidence)

\* the dict appended for a concept: {'class_name', 'confidence', 'source'}
ClarifaiDetection(concept) ==
    [class_name |-> concept.class_name, confidence |-> concept.confidence,
     source |-> "clarifai"]

\* app/vision/clarifai_detector.py: ClarifaiDetector.detect_food
ClarifaiDetector_detect_food(backend, min_confidence) ==
    IF backend.ok
    THEN LET kept == KeepConfident(backend.items, min_confidence)
         IN  [detections |-> [i \in 1..Len(kept) |-> ClarifaiDetection(kept[i])],
              total_detected |-> Len(kept),
              source |-> "clarifai"]
    ELSE [error |-> "Clarifai request failed", detections |-> <<>>, total_detected |-> 0]

\* dict.get('detections', [])
GetDetections(result) ==
    IF "detections" \in DOMAIN result THEN result.detections ELSE <<>>

\* d[key] = value
DictPut(d, key, value) == (key :> value) @@ d

---------------------------------------------------------------------------
(* app/vision/hybrid_detector.py: detect_ingredients_hybrid.               *)

YOLO_CONF_THRESHOLD == 25
MIN_YOLO_MATCHED == 2
LOW_AVG_CONFIDENCE == 40
CLARIFAI_MIN_CONFIDENCE == 30

RECURSIVE SumConfidence(_)
SumConfidence(ds) ==
    IF ds = <<>> THEN 0 ELSE Head(ds).confidence + SumConfidence(Tail(ds))

\* a faulty decision: the average confidence is not looked at
UseClarifaiCountOnly(matched, yolo_detections) ==
    Len(matched) < MIN_YOLO_MATCHED

\* step 2: fewer than 2 matched ingredients, or an average confidence of
\* the YOLO detections below 0.4
UseClarifai(matched, yolo_detections) ==
    IF Len(matched) < MIN_YOLO_MATCHED THEN TRUE
    ELSE IF yolo_detections # <<>>
         THEN SumConfidence(yolo_detections) < LOW_AVG_CONFIDENCE * Len(yolo_detections)
         ELSE FALSE

\* the dict `results` as first built
InitialResults ==
    [detections |-> <<>>, yolo_detections |-> <<>>, clarifai_detections |-> <<>>,
     strategy_used |-> "hybrid"]

\* the dict returned by the outer except
ErrorResults(e) ==
    [error |-> e, detections |-> <<>>, total_detected |-> 0]

\* steps 1 and 2: the YOLO detector is obtained and run, its detections are
\* resolved and the fallback decision is taken
RunPrimary ==
    /\ pc = "NotStarted"
    /\ \/ /\ yolo_load = "raises"
          /\ results' = ErrorResults("Model not found")
          /\ pc' = "Done"
          /\ UNCHANGED <<yolo_matched, yolo_unmatched, use_clarifai>>
       \/ /\ yolo_load = "ok"
          /\ ~yolo_backend.hangs
          /\ LET yolo_results == IngredientDetector_detect_ingredients(yolo_backend)
                 yolo_detections == GetDetections(yolo_results)
             IN  IF yolo_detections # <<>> /\ ~catalog_up
                 THEN /\ results' = ErrorResults("catalog query failed")
                      /\ pc' = "Done"
                      /\ UNCHANGED <<yolo_matched, yolo_unmatched, use_clarifai>>
                 ELSE /\ \E yolo_mapped \in process_yolo_detections(yolo_detections) :
                             /\ yolo_matched' = yolo_mapped.matched
                             /\ yolo_unmatched' = yolo_mapped.unmatched
                      /\ use_clarifai' = UseClarifai(yolo_matched', yolo_detections)
                      /\ results' = DictPut(results, "yolo_detections", yolo_detections)
                      /\ pc' = "PrimaryRan"
    /\ UNCHANGED <<clarifai_matched, detections, hybridEnv, normVars, matchVars, scanVars, serviceVars>>

\* step 3 is entered: `if use_clarifai:`
TriggerFallback ==
    /\ pc = "PrimaryRan"
    /\ use_clarifai
    /\ pc' = "FallbackTriggered"
    /\ UNCHANGED <<results, yolo_matched, yolo_unmatched, clarifai_matched,
                   use_clarifai, detections, hybridEnv, normVars, matchVars, scanVars, serviceVars>>

\* step 3: the Clarifai detector is obtained and run inside its own try;
\* any exception leaves clarifai_matched empty and sets clarifai_error
RunFallback ==
    /\ pc = "FallbackTriggered"
    /\ \/ /\ clarifai_load = "raises"
          /\ results' = DictPut(results, "clarifai_error", "CLARIFAI_PAT not found")
          /\ clarifai_matched' = <<>>
       \/ /\ clarifai_load = "ok"
          /\ ~clarifai_backend.hangs
          /\ LET clarifai_results ==
                     ClarifaiDetector_detect_food(clarifai_backend, CLARIFAI_MIN_CONFIDENCE)
                 clarifai_detections == GetDetections(clarifai_results)
                 seen == DictPut(results, "clarifai_detections", clarifai_detections)
             IN  IF clarifai_detections # <<>> /\ ~catalog_up
                 THEN /\ results' = DictPut(seen, "clarifai_error", "catalog query failed")
                      /\ clarifai_matched' = <<>>
                 ELSE /\ results' = seen
                      /\ clarifai_matched' \in map_clarifai_to_ingredients(clarifai_detections)
    /\ pc' = "FallbackRan"
    /\ UNCHANGED <<yolo_matched, yolo_unmatched, use_clarifai, detections, hybridEnv,
                   normVars, matchVars, scanVars, serviceVars>>

\* a faulty step 4: the merge does not wait for the fallback to return
MergeResultsEarly ==
    /\ \/ pc = "PrimaryRan" /\ ~use_clarifai
       \/ pc = "FallbackTriggered"
       \/ pc = "FallbackRan"
    /\ LET all_matched == merge_detections(yolo_matched, clarifai_matched)
       IN  results' =
               DictPut(DictPut(DictPut(results, "detections", all_matched),
                               "total_detected", Len(all_matched)),
                       "strategy_used",
                       IF use_clarifai THEN "hybrid (yolo + clarifai)" ELSE "yolo only")
    /\ pc' = "Done"
    /\ UNCHANGED <<yolo_matched, yolo_unmatched, clarifai_matched, use_clarifai,
                   detections, hybridEnv, normVars, matchVars, scanVars, serviceVars>>

\* step 4: merge, total and strategy; the dict is returned
MergeResults ==
    /\ \/ pc = "PrimaryRan" /\ ~use_clarifai
       \/ pc = "FallbackRan"
    /\ LET all_matched == merge_detections(yolo_matched, clarifai_matched)
       IN  results' =
               DictPut(DictPut(DictPut(results, "detections", all_matched),
                               "total_detected", Len(all_matched)),
                       "strategy_used",
                       IF use_clarifai THEN "hybrid (yolo + clarifai)" ELSE "yolo only")
    /\ pc' = "Done"
    /\ UNCHANGED <<yolo_matched, yolo_unmatched, clarifai_matched, use_clarifai,
                   detections, hybridEnv, normVars, matchVars, scanVars, serviceVars>>

---------------------------------------------------------------------------
(* Runs of detect_ingredients_hybrid: what each backend would answer, and  *)
(* whether each detector can be built and the catalog queried, are fixed   *)
(* before the run.                                                         *)

MaxYoloDetections == 2
MaxConcepts == 2

\* the table the runs resolve against
FoodCatalog ==
    { [id |-> 1, name |-> <<"A","p","p","l","e">>,
       name_es |-> <<"M","a","n","z","a","n","a">>, is_deleted |-> FALSE],
      [id |-> 2, name |-> <<"A","p","p","l","e"," ","J","u","i","c","e">>,
       name_es |-> NoneText, is_deleted |-> FALSE],
      [id |-> 3, name |-> <<"P","i","n","e","a","p","p","l","e">>,
       name_es |-> NoneText, is_deleted |-> FALSE] }

YoloBoxes ==
    [class_name : { <<"a","p","p","l","e">>, <<"p","i","n","e","a","p","p","l","e">>,
                    <<"p","e","r","s","o","n">> },
     confidence : {30, 90}]

ClarifaiConcepts ==
    [class_name : { <<"a","p","p","l","e","s">>, <<"j","u","i","c","e">> },
     confidence : {20, 85}]

Outcomes(items, max) ==
    {[ok |-> FALSE, hangs |-> h, items |-> <<>>] : h \in BOOLEAN}
        \cup {[ok |-> TRUE, hangs |-> FALSE, items |-> l] :
                  l \in UNION { [1..n -> items] : n \in 0..max }}

Init ==
    /\ pc = "NotStarted"
    /\ catalog = FoodCatalog
    /\ catalog_up \in BOOLEAN
    /\ yolo_load \in {"ok", "raises"}
    /\ yolo_backend \in Outcomes(YoloBoxes, MaxYoloDetections)
    /\ clarifai_load \in {"ok", "raises"}
    /\ clarifai_backend \in Outcomes(ClarifaiConcepts, MaxConcepts)
    /\ results = InitialResults
    /\ use_clarifai = FALSE
    /\ yolo_matched = <<>>
    /\ yolo_unmatched = <<>>
    /\ clarifai_matched = <<>>
    /\ detections = <<>>
    /\ detected_name = <<>>
    /\ ingredient = None
    /\ clarifai_ingredient = None
    /\ NormIdle
    /\ ScanIdle
    /\ LLMIdle
    /\ DetectorIdle

Next == RunPrimary \/ TriggerFallback \/ RunFallback \/ MergeResults

Spec == Init /\ [][Next]_vars

\* the thread that runs detect_ingredients_hybrid keeps running: a step
\* that can be taken is taken
FairSpec == Init /\ [][Next]_vars /\ WF_vars(Next)

YoloFailed == yolo_load = "raises" \/ ~yolo_backend.ok
ClarifaiFailed == clarifai_load = "raises" \/ ~clarifai_backend.ok

\* the matches the other adapter returns when it is run
ClarifaiMatches ==
    IF clarifai_load = "ok" /\ clarifai_backend.ok /\ catalog_up
    THEN map_clarifai_to_ingredients(
             GetDetections(ClarifaiDetector_detect_food(clarifai_backend,
                                                        CLARIFAI_MIN_CONFIDENCE)))
    ELSE {}

YoloMatches ==
    IF yolo_load = "ok" /\ yolo_backend.ok /\ catalog_up
    THEN { yolo_mapped.matched :
               yolo_mapped \in process_yolo_detections(
                   GetDetections(IngredientDetector_detect_ingredients(yolo_backend))) }
    ELSE {}

Entries(list) == {list[i] : i \in 1..Len(list)}
Ids(list) == {list[i].ingredient_id : i \in 1..Len(list)}

\* the run succeeded and returned the matches of `matched` and nothing else
ReturnsExactly(matched) ==
    /\ "error" \notin DOMAIN results
    /\ Ids(results.detections) = Ids(matched)
    /\ Entries(results.detections) \subseteq Entries(matched)

\* C8: when one adapter fails (an error result, or an exception while it is
\*     obtained or called) and the other returns matches, the run succeeds
\*     and returns exactly the other adapter's matches.
C8_AdapterIsolation ==
    pc = "Done" =>
        /\ (YoloFailed /\ \E m \in ClarifaiMatches : m # <<>>)
               => \E m \in ClarifaiMatches : m # <<>> /\ ReturnsExactly(m)
        /\ (ClarifaiFailed /\ \E m \in YoloMatches : m # <<>>)
               => \E m \in YoloMatches : m # <<>> /\ ReturnsExactly(m)

\* C10: when every adapter fails, the run ends in success with an empty
\*      list of ingredients.
C10_AllAdaptersFailed ==
    pc = "Done" =>
        ( (YoloFailed /\ ClarifaiFailed /\ catalog_up)
          => "error" \notin DOMAIN results /\ results.detections = <<>> )

\* a catalog query was issued during the run and raised: the YOLO detections
\* went to process_yolo_detections, or the Clarifai detections went to
\* map_clarifai_to_ingredients, while the catalog did not answer
CatalogRaised ==
    /\ ~catalog_up
    /\ \/ /\ yolo_load = "ok"
          /\ GetDetections(IngredientDetector_detect_ingredients(yolo_backend)) # <<>>
       \/ /\ "clarifai_error" \in DOMAIN results
          /\ results.clarifai_error = "catalog query failed"

\* C11: when a catalog query raises while the labels of either adapter are
\*      being resolved, the run ends as a failure reported to the caller
\*      (a result with an 'error' field), never as a success result.
C11_CatalogUnavailableFatal ==
    pc = "Done" => (CatalogRaised => "error" \in DOMAIN results)

\* the detections the YOLO adapter hands to process_yolo_detections
YoloDetections ==
    IF yolo_load = "ok"
    THEN GetDetections(IngredientDetector_detect_ingredients(yolo_backend))
    ELSE <<>>

\* the fallback condition as stated: fewer than 2 matched ingredients, or
\* a mean confidence of the primary's detections below 0.4
FallbackCondition ==
    \/ Len(yolo_matched) < 2
    \/ /\ YoloDetections # <<>>
       /\ SumConfidence(YoloDetections) < 40 * Len(YoloDetections)

\* C18: the secondary adapter is triggered if and only if the primary
\*      yields fewer than 2 matched ingredients or its mean confidence is
\*      below 0.4: the decision equals the condition, the run is inside the
\*      fallback only when it holds, and from PrimaryRan the run goes to
\*      FallbackTriggered when it holds and straight to Done when not.
C18_FallbackTrigger ==
    /\ [](pc \in {"PrimaryRan", "FallbackTriggered", "FallbackRan"}
             => (use_clarifai <=> FallbackCondition))
    /\ [](pc \in {"FallbackTriggered", "FallbackRan"} => FallbackCondition)
    /\ [][pc = "PrimaryRan"
             => pc' = IF FallbackCondition THEN "FallbackTriggered" ELSE "Done"]_vars

\* C18 witness: the primary matched two ingredients with a mean confidence
\*      below 0.4 and the secondary was run.
C18_Witness ==
    /\ pc = "FallbackRan"
    /\ Len(yolo_matched) >= 2
    /\ SumConfidence(YoloDetections) < 40 * Len(YoloDetections)

\* the transitions of the fusion state machine
Transitions ==
    { <<"NotStarted", "PrimaryRan">>, <<"PrimaryRan", "Done">>,
      <<"PrimaryRan", "FallbackTriggered">>, <<"FallbackTriggered", "FallbackRan">>,
      <<"FallbackRan", "Done">> }

\* C19: every run follows NotStarted -> PrimaryRan -> {Done |
\*      FallbackTriggered -> FallbackRan -> Done}: each step of a run is one
\*      of these transitions, so that the secondary is entered only after the
\*      primary's labels are resolved and at most once, the merge comes only
\*      after every invoked adapter has returned or failed, and no state is
\*      revisited; the secondary is skipped only when it was not triggered.
\*      The one other step is the end of a failed run: the exception of the
\*      primary stage taken by the outer except, which returns an 'error'
\*      result from NotStarted without merging.
C19_StateMachineOrder ==
    /\ [][\/ <<pc, pc'>> \in Transitions
          \/ /\ pc = "NotStarted" /\ pc' = "Done"
             /\ "error" \in DOMAIN results']_vars
    /\ [][(pc = "PrimaryRan" /\ pc' = "Done") => ~use_clarifai]_vars
    /\ [][pc' = "FallbackRan" =>
             /\ "yolo_detections" \in DOMAIN results
             /\ results.yolo_detections = YoloDetections]_vars
    /\ [](pc = "Done" /\ "error" \notin DOMAIN results
             => results.detections = merge_detections(yolo_matched, clarifai_matched))

\* C19 witness: a run that went through the fallback and ended with
\*      ingredients of both adapters merged.
C19_Witness ==
    /\ pc = "Done"
    /\ "error" \notin DOMAIN results
    /\ yolo_matched # <<>>
    /\ clarifai_matched # <<>>
    /\ results.strategy_used = "hybrid (yolo + clarifai)"

\* a detection carries the adapter's tag and is not below its threshold
TaggedAndConfident(detection, source, min_confidence) ==
    /\ "source" \in DOMAIN detection
    /\ detection.source = source
    /\ detection.confidence >= min_confidence

\* C25: every detection an adapter returned to detect_ingredients_hybrid
\*      has a confidence not below the minimum the adapter was called with
\*      and carries the adapter's own source tag.
C25_AdapterFiltersAndTags ==
    "error" \notin DOMAIN results =>
        /\ \A i \in 1..Len(results.yolo_detections) :
               TaggedAndConfident(results.yolo_detections[i], "yolo", YOLO_CONF_THRESHOLD)
        /\ \A i \in 1..Len(results.clarifai_detections) :
               TaggedAndConfident(results.clarifai_detections[i], "clarifai",
                                  CLARIFAI_MIN_CONFIDENCE)

\* C13: every run eventually reaches Done and returns, also when an adapter
\*      call never returns.
C13_EventuallyDone == <>(pc = "Done")

\* no row's name contains the lowercased label or the normalised label:
\* exact, prefix and substring matching all miss for both search terms
NoCatalogMatch(label) ==
    \A row \in catalog :
        /\ ~Contains(Lower(row.name), Lower(label))
        /\ ~Contains(Lower(row.name), normalize_detection_name(label))

\* C12: a detection whose label matches no row under any strategy is not an
\*      error: map_detection_to_ingredient returns None, the detection is in
\*      the 'unmatched' list only, no entry of the output list stems from
\*      it, and the run ends without an 'error' field.
C12_UnmatchedIsNotAnError ==
    (pc = "Done" /\ catalog_up) =>
        \A i \in 1..Len(YoloDetections) :
            LET detection == YoloDetections[i]
            IN  NoCatalogMatch(detection.class_name) =>
                    /\ map_detection_to_ingredient(detection.class_name) = {None}
                    /\ UnmatchedEntry(detection) \in Entries(yolo_unmatched)
                    /\ \A e \in Entries(yolo_matched) \cup Entries(results.detections) :
                           e.detected_as # detection.class_name
                    /\ "error" \notin DOMAIN results

\* C12 witness: a run that ended with one YOLO detection unmatched and
\*      another one in the output list.
C12_Witness ==
    /\ pc = "Done" /\ catalog_up
    /\ \E i \in 1..Len(YoloDetections) :
           /\ NoCatalogMatch(YoloDetections[i].class_name)
           /\ UnmatchedEntry(YoloDetections[i]) \in Entries(yolo_unmatched)
    /\ "error" \notin DOMAIN results
    /\ \E e \in Entries(results.detections) : e.source = "yolo"

\* the entries of list whose index is in keep, in order
Selected(list, keep) ==
    LET F[i \in 0..Len(list)] ==
            IF i = 0 THEN <<>>
            ELSE IF i \in keep THEN Append(F[i - 1], list[i]) ELSE F[i - 1]
    IN  F[Len(list)]

\* (label, confidence) of the entries of the matched and the unmatched list
MatchedOrigins ==
    [i \in 1..Len(yolo_matched) |->
        <<yolo_matched[i].detected_as, yolo_matched[i].confidence>>]
UnmatchedOrigins ==
    [i \in 1..Len(yolo_unmatched) |->
        <<yolo_unmatched[i].yolo_class, yolo_unmatched[i].confidence>>]
DetectionOrigins ==
    [i \in 1..Len(YoloDetections) |->
        <<YoloDetections[i].class_name, YoloDetections[i].confidence>>]

\* C29: process_yolo_detections partitions its input: the detections split
\*      into those behind the matched entries and those behind the
\*      unmatched entries, each in exactly one of the two, every matched
\*      entry keeping the label and the confidence of its detection with
\*      source 'yolo'; and in the dict it returns total_matched +
\*      len(unmatched) = total_detected = len(detections).
C29_Partition ==
    (pc # "NotStarted" /\ "error" \notin DOMAIN results) =>
        /\ \E keep \in SUBSET (1..Len(YoloDetections)) :
               /\ MatchedOrigins = Selected(DetectionOrigins, keep)
               /\ UnmatchedOrigins =
                      Selected(DetectionOrigins, (1..Len(YoloDetections)) \ keep)
        /\ \A i \in 1..Len(yolo_matched) : yolo_matched[i].source = "yolo"
        /\ \E yolo_mapped \in process_yolo_detections(YoloDetections) :
               /\ yolo_mapped.matched = yolo_matched
               /\ yolo_mapped.unmatched = yolo_unmatched
        /\ \A yolo_mapped \in process_yolo_detections(YoloDetections) :
               /\ yolo_mapped.total_matched = Len(yolo_mapped.matched)
               /\ yolo_mapped.total_detected = Len(YoloDetections)
               /\ yolo_mapped.total_matched + Len(yolo_mapped.unmatched)
                      = yolo_mapped.total_detected

\* C29 witness: of two detections one was matched and the other was not.
C29_Witness ==
    /\ pc = "PrimaryRan"
    /\ Len(YoloDetections) = 2
    /\ Len(yolo_matched) = 1
    /\ Len(yolo_unmatched) = 1
    /\ yolo_matched[1].confidence # yolo_unmatched[1].confidence

---------------------------------------------------------------------------
(* app/vision/claude_detector.py and app/api/scan.py: the single-adapter   *)
(* pipeline of upload_scan.  The Claude backend outcome is [kind, items]:  *)
(*   "ok"         the reply parses to the JSON array items;                 *)
(*   "api_error"  the image read or messages.create raises;                 *)
(*   "unparsable" no JSON array is found, _extract_json returns [];         *)
(*   "bad_item"   the array holds an entry without 'name' or 'confidence'.  *)

CLAUDE_MIN_CONFIDENCE == 50

\* detection = {'class_name': item['name'].lower().strip(), ...}
ClaudeDetection(item) ==
    [class_name |-> Strip(Lower(item.class_name)), confidence |-> item.confidence,
     source |-> "claude"]

ClaudeVisionDetector_detect_ingredients(backend, min_confidence) ==
    IF backend.kind \in {"api_error", "bad_item"}
    THEN [error |-> backend.kind, detections |-> <<>>, total_detected |-> 0,
          source |-> "claude"]
    ELSE LET all_detections ==
                 [i \in 1..Len(backend.items) |-> ClaudeDetection(backend.items[i])]
             filtered_detections == KeepConfident(all_detections, min_confidence)
         IN  [detections |-> filtered_detections, all_detections |-> all_detections,
              total_detected |-> Len(filtered_detections), source |-> "claude"]

\* the loop of upload_scan over claude_detections: the lists of
\* matched_ingredients it may build
RECURSIVE MapClaudeDetections(_)
MapClaudeDetections(claude_detections) ==
    IF claude_detections = <<>> THEN {<<>>}
    ELSE LET detection == Head(claude_detections)
         IN  { (IF row = None THEN <<>>
                ELSE <<MatchedEntry(row, detection, "claude")>>) \o rest :
                 row \in map_detection_to_ingredient(detection.class_name),
                 rest \in MapClaudeDetections(Tail(claude_detections)) }

\* MealScan(..., processing_status='pending')
PendingScan ==
    [processing_status |-> "pending", detected_ingredients |-> None,
     error_message |-> None]

\* a faulty inner except: the message is stored but the status is not set
FailedScanStaysPending(e) ==
    [processing_status |-> "pending", detected_ingredients |-> None,
     error_message |-> e]

\* the inner except: the scan is marked failed
FailedScan(e) ==
    [processing_status |-> "failed", detected_ingredients |-> None,
     error_message |-> e]

CompletedScan(matched_ingredients) ==
    [processing_status |-> "completed", detected_ingredients |-> matched_ingredients,
     error_message |-> None]

\* POST /api/scan: validation, the scan record, detection and mapping inside
\* the inner try, then commit and the response
upload_scan ==
    /\ pc = "request"
    /\ pc' = "responded"
    /\ \/ /\ image # "ok"
          /\ scan' = None
          /\ response' = 400
       \/ /\ image = "ok"
          /\ ~auto_detect
          /\ scan' = PendingScan
          /\ response' = 201
       \/ /\ image = "ok"
          /\ auto_detect
          /\ claude_load = "raises"
          /\ scan' = FailedScan("ANTHROPIC_API_KEY not found")
          /\ response' = 201
       \/ /\ image = "ok"
          /\ auto_detect
          /\ claude_load = "ok"
          /\ LET detection_results ==
                     ClaudeVisionDetector_detect_ingredients(claude_backend,
                                                             CLAUDE_MIN_CONFIDENCE)
                 claude_detections == GetDetections(detection_results)
             IN  IF "error" \in DOMAIN detection_results
                 THEN /\ scan' = FailedScan(detection_results.error)
                      /\ response' = 201
                 ELSE IF claude_detections # <<>> /\ ~catalog_up
                 THEN \/ /\ scan' = FailedScan("catalog query failed")
                         /\ response' = 201
                      \/ /\ scan' = None
                         /\ response' = 500
                 ELSE /\ scan' \in { CompletedScan(m) :
                                        m \in MapClaudeDetections(claude_detections) }
                      /\ response' = 201
    /\ UNCHANGED <<scanEnv, matchVars, hybridVars, normVars, mergeVars, serviceVars>>

---------------------------------------------------------------------------
(* Requests to upload_scan.                                                *)

MaxClaudeItems == 2

ClaudeItems ==
    [class_name : { <<"A","p","p","l","e">>, <<"a","p","p","l","e","s">>,
                    <<"k","i","w","i">> },
     confidence : {40, 90}]

ClaudeOutcomes ==
    { [kind |-> k, items |-> <<>>] : k \in {"api_error", "unparsable", "bad_item"} }
        \cup { [kind |-> "ok", items |-> l] :
                   l \in UNION { [1..n -> ClaudeItems] : n \in 0..MaxClaudeItems } }

InitScan ==
    /\ pc = "request"
    /\ image \in {"ok", "missing", "no filename", "bad extension"}
    /\ auto_detect \in BOOLEAN
    /\ claude_load \in {"ok", "raises"}
    /\ claude_backend \in ClaudeOutcomes
    /\ scan = None
    /\ response = 0
    /\ catalog = FoodCatalog
    /\ catalog_up \in BOOLEAN
    /\ detected_name = <<>>
    /\ ingredient = None
    /\ clarifai_ingredient = None
    /\ yolo_load = "ok" /\ clarifai_load = "ok"
    /\ yolo_backend = [ok |-> FALSE, hangs |-> FALSE, items |-> <<>>]
    /\ clarifai_backend = [ok |-> FALSE, hangs |-> FALSE, items |-> <<>>]
    /\ use_clarifai = FALSE /\ results = <<>> /\ yolo_unmatched = <<>>
    /\ NormIdle
    /\ MergeIdle
    /\ LLMIdle
    /\ DetectorIdle

NextScan == upload_scan

SpecScan == InitScan /\ [][NextScan]_vars

\* C9: an adapter whose backend call fails or whose response is malformed
\*     returns a result with an 'error' field and no detections, and the
\*     pipeline takes that as zero detections: the scan is not failed.
C9_AdapterErrorIsZeroDetections ==
    ( /\ pc = "responded"
      /\ image = "ok" /\ auto_detect /\ claude_load = "ok"
      /\ claude_backend.kind # "ok" )
    => LET detection_results ==
               ClaudeVisionDetector_detect_ingredients(claude_backend,
                                                       CLAUDE_MIN_CONFIDENCE)
       IN  /\ "error" \in DOMAIN detection_results
           /\ detection_results.detections = <<>>
           /\ scan # None
           /\ scan.processing_status = "completed"
           /\ scan.detected_ingredients = <<>>

\* what the Claude adapter returns for the request
DetectionResults ==
    ClaudeVisionDetector_detect_ingredients(claude_backend, CLAUDE_MIN_CONFIDENCE)

\* an exception leaves the inner try of upload_scan: the detector cannot be
\* built, the adapter's result has an 'error' key, or a catalog query raises
DetectionRaised ==
    \/ claude_load = "raises"
    \/ "error" \in DOMAIN DetectionResults
    \/ GetDetections(DetectionResults) # <<>> /\ ~catalog_up

\* the messages an exception of the inner try carries
ErrorMessages ==
    {"ANTHROPIC_API_KEY not found", "api_error", "bad_item", "catalog query failed"}

\* C28: a committed scan's fields agree with its status: 'completed' only
\*      when detection was asked for and nothing raised, with the matched
\*      ingredients stored and no error message; 'failed' only when
\*      detection was asked for and raised, with the error message stored
\*      and no ingredients; 'pending' only when auto_detect was disabled.
C28_StatusConsistent ==
    (pc = "responded" /\ scan # None) =>
        /\ scan.processing_status \in {"pending", "completed", "failed"}
        /\ scan.processing_status = "completed" =>
               /\ auto_detect /\ ~DetectionRaised
               /\ scan.detected_ingredients
                      \in MapClaudeDetections(GetDetections(DetectionResults))
               /\ scan.error_message = None
        /\ scan.processing_status = "failed" =>
               /\ auto_detect /\ DetectionRaised
               /\ scan.error_message \in ErrorMessages
               /\ scan.detected_ingredients = None
        /\ scan.processing_status = "pending" => ~auto_detect

\* C28 witness: the adapter answered with an error result and the scan was
\*      committed as failed with the adapter's message.
C28_Witness ==
    /\ pc = "responded" /\ scan # None
    /\ claude_load = "ok" /\ claude_backend.kind = "bad_item"
    /\ scan.processing_status = "failed"
    /\ scan.error_message = "bad_item"

---------------------------------------------------------------------------
(* app/ai/llm_manager.py: get_llm_manager and LLMManager.warmup, called by *)
(* concurrent request threads.  In this specification pc maps each thread  *)
(* to its position; a step is what a thread does between two points where  *)
(* another thread may run.  0 stands for None in llm_manager and for a     *)
(* free lock; an instance is named by its index in managers.               *)

MaxThreads == 2
MaxWarmups == 2

Threads == 1..MaxThreads

\* LLMManager.__init__: the lock is free and the model is not warmed up;
\* inferences counts the calls of self.llm.invoke that returned
NewManager == [lock |-> 0, is_warmed_up |-> FALSE, inferences |-> 0]

\* LLMManager.is_ready
is_ready(m) == managers[m].is_warmed_up

\* `if _llm_manager is None:` outside the lock
GetCheck(t) ==
    /\ pc[t] = "get"
    /\ pc' = [pc EXCEPT ![t] = IF llm_manager = 0 THEN "get_lock" ELSE "get_return"]
    /\ UNCHANGED <<llmVars, pipelineVars, detectorVars>>

\* `with _manager_lock:` entered
GetLock(t) ==
    /\ pc[t] = "get_lock"
    /\ manager_lock = 0
    /\ manager_lock' = t
    /\ pc' = [pc EXCEPT ![t] = "get_check2"]
    /\ UNCHANGED <<llm_manager, managers, created, manager, warmups, returned, pipelineVars, detectorVars>>

\* a faulty second test: the instance is built without looking again
GetCheck2NoRecheck(t) ==
    /\ pc[t] = "get_check2"
    /\ pc' = [pc EXCEPT ![t] = "get_construct"]
    /\ UNCHANGED <<llmVars, pipelineVars, detectorVars>>

\* `if _llm_manager is None:` inside the lock
GetCheck2(t) ==
    /\ pc[t] = "get_check2"
    /\ pc' = [pc EXCEPT ![t] = IF llm_manager = 0 THEN "get_construct" ELSE "get_unlock"]
    /\ UNCHANGED <<llmVars, pipelineVars, detectorVars>>

\* LLMManager() is evaluated
GetConstruct(t) ==
    /\ pc[t] = "get_construct"
    /\ managers' = Append(managers, NewManager)
    /\ created' = [created EXCEPT ![t] = Len(managers) + 1]
    /\ pc' = [pc EXCEPT ![t] = "get_assign"]
    /\ UNCHANGED <<llm_manager, manager_lock, manager, warmups, returned, pipelineVars, detectorVars>>

\* _llm_manager = <the new instance>
GetAssign(t) ==
    /\ pc[t] = "get_assign"
    /\ llm_manager' = created[t]
    /\ pc' = [pc EXCEPT ![t] = "get_unlock"]
    /\ UNCHANGED <<manager_lock, managers, created, manager, warmups, returned, pipelineVars, detectorVars>>

\* the with block of _manager_lock is left
GetUnlock(t) ==
    /\ pc[t] = "get_unlock"
    /\ manager_lock' = 0
    /\ pc' = [pc EXCEPT ![t] = "get_return"]
    /\ UNCHANGED <<llm_manager, managers, created, manager, warmups, returned, pipelineVars, detectorVars>>

\* return _llm_manager
GetReturn(t) ==
    /\ pc[t] = "get_return"
    /\ manager' = [manager EXCEPT ![t] = llm_manager]
    /\ pc' = [pc EXCEPT ![t] = "ready"]
    /\ UNCHANGED <<llm_manager, manager_lock, managers, created, warmups, returned, pipelineVars, detectorVars>>

\* manager.warmup() is called
WarmupCall(t) ==
    /\ pc[t] = "ready"
    /\ warmups[t] < MaxWarmups
    /\ warmups' = [warmups EXCEPT ![t] = @ + 1]
    /\ pc' = [pc EXCEPT ![t] = "warmup_lock"]
    /\ UNCHANGED <<llm_manager, manager_lock, managers, created, manager, returned, pipelineVars, detectorVars>>

\* `with self._lock:` entered
WarmupLock(t) ==
    /\ pc[t] = "warmup_lock"
    /\ managers[manager[t]].lock = 0
    /\ managers' = [managers EXCEPT ![manager[t]].lock = t]
    /\ pc' = [pc EXCEPT ![t] = "warmup_check"]
    /\ UNCHANGED <<llm_manager, manager_lock, created, manager, warmups, returned, pipelineVars, detectorVars>>

\* a faulty test: the inference is run whether or not the model is warm
WarmupCheckNoSkip(t) ==
    /\ pc[t] = "warmup_check"
    /\ pc' = [pc EXCEPT ![t] = "warmup_invoke"]
    /\ UNCHANGED <<llmVars, pipelineVars, detectorVars>>

\* `if self._is_warmed_up: return True`
WarmupCheck(t) ==
    /\ pc[t] = "warmup_check"
    /\ IF is_ready(manager[t])
       THEN /\ returned' = [returned EXCEPT ![t] = TRUE]
            /\ pc' = [pc EXCEPT ![t] = "warmup_unlock"]
       ELSE /\ pc' = [pc EXCEPT ![t] = "warmup_invoke"]
            /\ UNCHANGED returned
    /\ UNCHANGED <<llm_manager, manager_lock, managers, created, manager, warmups,
                   pipelineVars, detectorVars>>

\* self.llm.invoke("Hi") returns, or raises and warmup returns False
WarmupInvoke(t) ==
    /\ pc[t] = "warmup_invoke"
    /\ \/ /\ managers' = [managers EXCEPT ![manager[t]].inferences = @ + 1]
          /\ pc' = [pc EXCEPT ![t] = "warmup_set"]
          /\ UNCHANGED returned
       \/ /\ returned' = [returned EXCEPT ![t] = FALSE]
          /\ pc' = [pc EXCEPT ![t] = "warmup_unlock"]
          /\ UNCHANGED managers
    /\ UNCHANGED <<llm_manager, manager_lock, created, manager, warmups, pipelineVars, detectorVars>>

\* self._is_warmed_up = True; return True
WarmupSet(t) ==
    /\ pc[t] = "warmup_set"
    /\ managers' = [managers EXCEPT ![manager[t]].is_warmed_up = TRUE]
    /\ returned' = [returned EXCEPT ![t] = TRUE]
    /\ pc' = [pc EXCEPT ![t] = "warmup_unlock"]
    /\ UNCHANGED <<llm_manager, manager_lock, created, manager, warmups, pipelineVars, detectorVars>>

\* the with block of self._lock is left; warmup returns returned[t]
WarmupUnlock(t) ==
    /\ pc[t] = "warmup_unlock"
    /\ managers' = [managers EXCEPT ![manager[t]].lock = 0]
    /\ pc' = [pc EXCEPT ![t] = "ready"]
    /\ UNCHANGED <<llm_manager, manager_lock, created, manager, warmups, returned, pipelineVars, detectorVars>>

InitLLM ==
    /\ pc = [t \in Threads |-> "get"]
    /\ llm_manager = 0
    /\ manager_lock = 0
    /\ managers = <<>>
    /\ created = [t \in Threads |-> 0]
    /\ manager = [t \in Threads |-> 0]
    /\ warmups = [t \in Threads |-> 0]
    /\ returned = [t \in Threads |-> FALSE]
    /\ NormIdle
    /\ MergeIdle
    /\ MatchIdle
    /\ HybridIdle
    /\ ScanIdle
    /\ DetectorIdle

NextLLM ==
    \E t \in Threads :
        \/ GetCheck(t) \/ GetLock(t) \/ GetCheck2(t) \/ GetConstruct(t)
        \/ GetAssign(t) \/ GetUnlock(t) \/ GetReturn(t)
        \/ WarmupCall(t) \/ WarmupLock(t) \/ WarmupCheck(t) \/ WarmupInvoke(t)
        \/ WarmupSet(t) \/ WarmupUnlock(t)

SpecLLM == InitLLM /\ [][NextLLM]_vars

\* C15: once a warmup has succeeded no warmup runs the inference again: the
\*      inference succeeds at most once per manager, a warm manager stays
\*      warm, a call that finds it warm returns True without an inference,
\*      and a call whose inference fails returns False and leaves it cold.
C15_WarmupOnce ==
    /\ [](\A m \in 1..Len(managers) : managers[m].inferences <= 1)
    /\ [][\A m \in 1..Len(managers) : is_ready(m) => managers'[m].is_warmed_up]_vars
    /\ [][\A t \in Threads :
             (pc[t] = "warmup_check" /\ is_ready(manager[t]) /\ pc'[t] # pc[t])
                 => /\ pc'[t] = "warmup_unlock"
                    /\ returned'[t] = TRUE
                    /\ managers' = managers]_vars
    /\ [][\A t \in Threads :
             (pc[t] = "warmup_invoke" /\ pc'[t] = "warmup_unlock")
                 => /\ returned'[t] = FALSE
                    /\ ~managers'[manager[t]].is_warmed_up]_vars

\* C15 witness: every thread has made all its warmup calls, the last ones
\*      returned True, and the one manager has run one inference.
C15_Witness ==
    /\ \A t \in Threads : pc[t] = "ready" /\ warmups[t] = MaxWarmups /\ returned[t]
    /\ Len(managers) = 1
    /\ managers[1].inferences = 1

\* C16: under every interleaving of first calls of get_llm_manager,
\*      LLMManager is constructed at most once and every caller gets the
\*      same instance.
C16_OneManager ==
    /\ Len(managers) <= 1
    /\ \A t \in Threads :
           pc[t] \in {"ready", "warmup_lock", "warmup_check", "warmup_invoke",
                      "warmup_set", "warmup_unlock"}
               => manager[t] = 1

\* C16 witness: a thread that saw None outside the lock found the instance
\*      inside it, built nothing, and holds the same instance as the thread
\*      that built it.
C16_Witness ==
    \E t, u \in Threads :
        /\ t # u
        /\ pc[t] = "ready" /\ pc[u] = "ready"
        /\ created[t] = 1 /\ created[u] = 0
        /\ warmups[u] = 0 /\ warmups[t] = 0
        /\ manager[t] = manager[u] /\ manager[u] = 1

---------------------------------------------------------------------------
(* app/vision/detector.py, clarifai_detector.py and claude_detector.py:    *)
(* get_detector, get_clarifai_detector and get_claude_detector, called by  *)
(* concurrent request threads.  The three have the same body,              *)
(*     if _x is None: _x = X()                                             *)
(*     return _x                                                           *)
(* with no lock.  pc maps each thread to its position; the detectors a     *)
(* getter has constructed are numbered 1, 2, ... in the order of their     *)
(* construction.                                                           *)

MaxCalls == 2

Getters == {"get_detector", "get_clarifai_detector", "get_claude_detector"}

\* a request thread calls one of the getters
DetectorCall(t, g) ==
    /\ pc[t] = "idle"
    /\ calls[t] < MaxCalls
    /\ calls' = [calls EXCEPT ![t] = @ + 1]
    /\ getter' = [getter EXCEPT ![t] = g]
    /\ pc' = [pc EXCEPT ![t] = "check"]
    /\ UNCHANGED <<instance, constructions, fresh, detector, pipelineVars, llmVars>>

\* `if _x is None:`
DetectorCheck(t) ==
    /\ pc[t] = "check"
    /\ pc' = [pc EXCEPT ![t] = IF instance[getter[t]] = 0 THEN "construct" ELSE "return"]
    /\ UNCHANGED <<detectorVars, pipelineVars, llmVars>>

\* X() is evaluated: a detector is built, or the constructor raises (the
\* model file or the API key is missing) and the call ends
DetectorConstruct(t) ==
    /\ pc[t] = "construct"
    /\ \/ /\ constructions' = [constructions EXCEPT ![getter[t]] = @ + 1]
          /\ fresh' = [fresh EXCEPT ![t] = constructions'[getter[t]]]
          /\ pc' = [pc EXCEPT ![t] = "assign"]
       \/ /\ pc' = [pc EXCEPT ![t] = "idle"]
          /\ UNCHANGED <<constructions, fresh>>
    /\ UNCHANGED <<instance, getter, detector, calls, pipelineVars, llmVars>>

\* _x = <the new detector>
DetectorAssign(t) ==
    /\ pc[t] = "assign"
    /\ instance' = [instance EXCEPT ![getter[t]] = fresh[t]]
    /\ pc' = [pc EXCEPT ![t] = "return"]
    /\ UNCHANGED <<constructions, getter, fresh, detector, calls, pipelineVars, llmVars>>

\* return _x
DetectorReturn(t) ==
    /\ pc[t] = "return"
    /\ detector' = [detector EXCEPT ![t][getter[t]] = instance[getter[t]]]
    /\ pc' = [pc EXCEPT ![t] = "idle"]
    /\ UNCHANGED <<instance, constructions, getter, fresh, calls, pipelineVars, llmVars>>

InitDetectors ==
    /\ pc = [t \in Threads |-> "idle"]
    /\ instance = [g \in Getters |-> 0]
    /\ constructions = [g \in Getters |-> 0]
    /\ getter = [t \in Threads |-> "get_detector"]
    /\ fresh = [t \in Threads |-> 0]
    /\ detector = [t \in Threads |-> [g \in Getters |-> 0]]
    /\ calls = [t \in Threads |-> 0]
    /\ NormIdle
    /\ MergeIdle
    /\ MatchIdle
    /\ HybridIdle
    /\ ScanIdle
    /\ LLMIdle

NextDetectors ==
    \E t \in Threads :
        \/ \E g \in Getters : DetectorCall(t, g)
        \/ DetectorCheck(t) \/ DetectorConstruct(t) \/ DetectorAssign(t)
        \/ DetectorReturn(t)

SpecDetectors == InitDetectors /\ [][NextDetectors]_vars

\* C27: under every interleaving of calls from request threads, each
\*      getter constructs its detector at most once and returns the same
\*      instance to every caller.
C27_DetectorsCreatedOnce ==
    \A g \in Getters :
        /\ constructions[g] <= 1
        /\ \A t, u \in Threads :
               (detector[t][g] # 0 /\ detector[u][g] # 0)
                   => detector[t][g] = detector[u][g]

===========================================================================
